---- MODULE Spec2Model ----
(***************************************************************************)
(* Masjid Fund Collection API (src/main.py, src/schemas.py).               *)
(*                                                                         *)
(* The store is six collections of documents; every collection is kept in  *)
(* insertion order, which is also the order of the server-set created_at.  *)
(* A Python Optional[T] value is modelled as a set with at most one        *)
(* element: None is {} and a present value v is {v}.  Amounts are floats   *)
(* in the source and small integers here (no rounding is modelled).        *)
(* Pass-through fields that no handler reads (address, note, proof_url,    *)
(* description, gpay_*, ...) are left out of the documents.                *)
(***************************************************************************)
EXTENDS Integers, Sequences, FiniteSets, TLC

VARIABLES
    user,           \* collection "user"
    masjid,         \* collection "masjid"
    project,        \* collection "project"
    participant,    \* collection "participant"
    contribution,   \* collection "contribution"
    expense,        \* collection "expense"
    nextId,         \* the next ObjectId the store hands out
    resp,           \* the response of the request handled last
    otp_set,        \* per user _id: the new_otp of its last successful update-OTP
    thr             \* the in-flight requests of the interleaved specifications

vars == <<user, masjid, project, participant, contribution, expense,
          nextId, resp, otp_set, thr>>

----------------------------------------------------------------------------
(* Bounds of the model *)

MaxUsers == 2
MaxMasjids == 2

----------------------------------------------------------------------------
(* Values *)

None == {}
Some(v) == {v}

\* Python truthiness of an Optional[str]: None and "" are falsy.
Truthy(o) == o # {} /\ o # {""}

\* Python's `a or b`.
PyOr(a, b) == IF Truthy(a) THEN a ELSE b

\* str(ObjectId): the n-th ObjectId the store hands out, as its hex string.
Hex == <<"0", "1", "2", "3", "4", "5", "6", "7",
         "8", "9", "a", "b", "c", "d", "e", "f">>

\* The identifier strings, by number: "65a00" .. "65aff".
IdTable ==
    [n \in 0..(Len(Hex) * Len(Hex) - 1) |->
        "65a" \o Hex[(n \div Len(Hex)) + 1] \o Hex[(n % Len(Hex)) + 1]]

IdStrings == {IdTable[n] : n \in DOMAIN IdTable}

IdNumber == [s \in IdStrings |-> CHOOSE n \in DOMAIN IdTable : IdTable[n] = s]

IdStr(n) == IdTable[n]

\* bson.ObjectId(s) succeeds exactly on well-formed identifier strings.
WellFormed(s) == s \in IdStrings

ObjectId(s) == IdNumber[s]

\* oid(): the parsed identifier, or the 400 "Invalid id" error.
oid(s) == IF WellFormed(s) THEN [ok |-> TRUE, id |-> ObjectId(s)]
                           ELSE [ok |-> FALSE, id |-> 0]

NoRoles == [k \in {} |-> "admin"]

Mobiles == {"m1", "m2"}
Otps == {"", "x"}

----------------------------------------------------------------------------
(* Store primitives *)

\* create_document: insert at the end (newest created_at), return the new id.
create_document(coll, doc) == Append(coll, doc)

\* find_one / update_one: the first of the matching documents, given as the
\* set of their indices, or 0 when nothing matches.
FirstIndex(hits) ==
    IF hits = {} THEN 0 ELSE CHOOSE i \in hits : \A j \in hits : i <= j

\* User(mobile=m, otp=m) with the schema's defaults.
NewUser(id, m) ==
    [_id |-> id, mobile |-> m, name |-> None, otp |-> Some(m),
     roles |-> NoRoles, is_super_admin |-> FALSE]

\* Mutant: {"$set": {"roles": {mid: "admin"}}} replaces the whole mapping.
SetRole_ReplaceAll(roles, mid) == [k \in {mid} |-> "admin"]

\* {"$set": {"roles.<mid>": "admin"}}
SetRole(roles, mid) ==
    [k \in DOMAIN roles \cup {mid} |-> IF k = mid THEN "admin" ELSE roles[k]]

----------------------------------------------------------------------------
(* Authentication *)

\* The effective OTP of a user document.
EffectiveOtp(u) == PyOr(u.otp, Some(u.mobile))

\* POST /auth/login, as one step.
login(m, y) ==
    LET i == FirstIndex({k \in 1..Len(user) : user[k].mobile = m})
        fresh == NewUser(nextId, m)
        u == IF i = 0 THEN fresh ELSE user[i]
    IN /\ i = 0 => Len(user) < MaxUsers
       /\ user' = IF i = 0 THEN create_document(user, fresh) ELSE user
       /\ nextId' = IF i = 0 THEN nextId + 1 ELSE nextId
       /\ otp_set' = IF i = 0 THEN otp_set @@ (nextId :> None) ELSE otp_set
       /\ resp' = IF Some(y) # EffectiveOtp(u)
                  THEN [op |-> "login", status |-> 401, detail |-> "Invalid OTP",
                        req |-> [mobile |-> m, otp |-> y], body |-> None]
                  ELSE [op |-> "login", status |-> 200, detail |-> "",
                        req |-> [mobile |-> m, otp |-> y], body |-> Some(IdStr(u._id))]
       /\ UNCHANGED <<masjid, project, participant, contribution, expense, thr>>

\* POST /auth/update-otp/{user_id}
update_otp(user_id, new_otp) ==
    LET o == oid(user_id)
        i == IF o.ok THEN FirstIndex({k \in 1..Len(user) : user[k]._id = o.id})
             ELSE 0
        req == [user_id |-> user_id, new_otp |-> new_otp]
    IN /\ user' = IF i = 0 THEN user
                  ELSE [user EXCEPT ![i].otp = Some(new_otp)]
       /\ otp_set' = IF i = 0 THEN otp_set
                     ELSE [otp_set EXCEPT ![o.id] = Some(new_otp)]
       /\ resp' = IF ~o.ok
                  THEN [op |-> "update_otp", status |-> 400, detail |-> "Invalid id",
                        req |-> req, body |-> None]
                  ELSE IF i = 0
                  THEN [op |-> "update_otp", status |-> 404, detail |-> "User not found",
                        req |-> req, body |-> None]
                  ELSE [op |-> "update_otp", status |-> 200, detail |-> "",
                        req |-> req, body |-> None]
       /\ UNCHANGED <<masjid, project, participant, contribution, expense, nextId, thr>>

----------------------------------------------------------------------------
(* Masjid management *)

\* POST /masjids: the masjid is inserted first, the owner id is parsed after.
create_masjid(owner_user_id) ==
    LET mid == IdStr(nextId)
        doc == [_id |-> nextId, created_by_user_id |-> Some(owner_user_id)]
        o == oid(owner_user_id)
        i == IF o.ok THEN FirstIndex({k \in 1..Len(user) : user[k]._id = o.id})
             ELSE 0
        req == [owner_user_id |-> owner_user_id]
    IN /\ Len(masjid) < MaxMasjids
       /\ masjid' = create_document(masjid, doc)
       /\ nextId' = nextId + 1
       /\ user' = IF i = 0 THEN user
                  ELSE [user EXCEPT ![i].roles = SetRole(@, mid)]
       /\ resp' = IF ~o.ok
                  THEN [op |-> "create_masjid", status |-> 400, detail |-> "Invalid id",
                        req |-> req, body |-> None]
                  ELSE [op |-> "create_masjid", status |-> 200, detail |-> "",
                        req |-> req, body |-> Some(mid)]
       /\ UNCHANGED <<project, participant, contribution, expense, otp_set, thr>>

\* The identifier strings a client can have seen, and a malformed one.
IdInputs == {IdStr(n) : n \in 1..(nextId - 1)} \cup {"not-an-id"}

----------------------------------------------------------------------------
(* Specifications *)

NoResp == [op |-> "none", status |-> 0, detail |-> "", req |-> None, body |-> None]

Init ==
    /\ user = <<>>
    /\ masjid = <<>>
    /\ project = <<>>
    /\ participant = <<>>
    /\ contribution = <<>>
    /\ expense = <<>>
    /\ nextId = 1
    /\ resp = NoResp
    /\ otp_set = <<>>
    /\ thr = <<>>

Login == \E m \in Mobiles : \E y \in Otps \cup {m} : login(m, y)
UpdateOtp == \E s \in IdInputs, x \in Otps : update_otp(s, x)
CreateMasjid == \E s \in IdInputs : create_masjid(s)

NextAuth == Login \/ UpdateOtp \/ CreateMasjid

SpecAuth == Init /\ [][NextAuth]_vars

----------------------------------------------------------------------------
(* Claims settled under SpecAuth *)

UserIdx == 1..Len(user)
MasjidIdx == 1..Len(masjid)

\* Every masjid created for an owner id that identifies a user leaves that
\* user with the role "admin" for the masjid's id.
AdminGranted ==
    \A i \in MasjidIdx, j \in UserIdx :
        masjid[i].created_by_user_id = Some(IdStr(user[j]._id))
            => /\ IdStr(masjid[i]._id) \in DOMAIN user[j].roles
               /\ user[j].roles[IdStr(masjid[i]._id)] = "admin"

\* A create-masjid step changes the roles of no user but the owner.
OthersUntouched ==
    (masjid' # masjid) =>
        /\ Len(user') = Len(user)
        /\ \A j \in UserIdx :
              IdStr(user[j]._id) # resp'.req.owner_user_id
                  => user'[j].roles = user[j].roles

\* C2: after create-masjid for an existing user U returns M, U's roles map
\* M to "admin" in that state and in every later state, and the operation
\* changes no other user's roles.
C2_AdminRoleGrantedAndKept == []AdminGranted /\ [][OthersUntouched]_vars

\* C2 witness: a user that owns two masjids, seen after a later login: the
\* first grant survived the second create-masjid and the login.
C2_Witness ==
    /\ resp.op = "login"
    /\ \E j \in UserIdx : Cardinality(DOMAIN user[j].roles) >= 2

\* C4 as stated: once update-OTP to X succeeded for a user, a login with that
\* user's mobile and OTP Y succeeds if and only if Y = X (for every string X,
\* the empty string included) until the next update-OTP.
C4_LoginIffLastSetOtp ==
    resp.op = "login" =>
        \A j \in UserIdx :
            (user[j].mobile = resp.req.mobile /\ otp_set[user[j]._id] # None)
                => (resp.status = 200
                      <=> Some(resp.req.otp) = otp_set[user[j]._id])

\* C9 as stated: a create-masjid request with a malformed owner_user_id fails
\* with "Invalid id" and leaves the masjid and user collections unchanged.
C9_InvalidIdLeavesStoreUnchanged ==
    [][(resp'.op = "create_masjid" /\ resp'.detail = "Invalid id")
        => (masjid' = masjid /\ user' = user)]_vars

----------------------------------------------------------------------------
(* Participation *)

Frequency == {"one_time", "weekly", "monthly", "yearly"}
PaymentMode == {"direct", "online", "gpay"}

\* The constraints of schemas.Participant on the three optional fields.
ValidParticipant(r) ==
    /\ \A a \in r.pledge_amount : a >= 0
    /\ r.frequency \subseteq Frequency
    /\ r.preferred_mode \subseteq PaymentMode

\* What request validation checks for POST /projects/join: the JoinProject
\* model, whose optional fields carry no constraint.
ValidJoinProject(body) == TRUE

\* Mutant: {"$set": body.model_dump(exclude_none=True)}, a merge that keeps
\* the stored value of every field the request leaves out.
ApplySet_Merge(doc, body) ==
    [doc EXCEPT !.project_id = body.project_id,
                !.user_id = body.user_id,
                !.pledge_amount = IF body.pledge_amount = None THEN @
                                  ELSE body.pledge_amount,
                !.frequency = IF body.frequency = None THEN @
                              ELSE body.frequency,
                !.preferred_mode = IF body.preferred_mode = None THEN @
                                   ELSE body.preferred_mode]

\* {"$set": body.model_dump()} applied to a matched document: every field
\* of the body is written, the ones that are None too.
ApplySet(doc, body) ==
    [doc EXCEPT !.project_id = body.project_id,
                !.user_id = body.user_id,
                !.pledge_amount = body.pledge_amount,
                !.frequency = body.frequency,
                !.preferred_mode = body.preferred_mode]

\* The document an upsert inserts when nothing matches.
Upserted(id, body) ==
    [_id |-> id, project_id |-> body.project_id, user_id |-> body.user_id,
     pledge_amount |-> body.pledge_amount, frequency |-> body.frequency,
     preferred_mode |-> body.preferred_mode]

\* POST /projects/join
join_project(body) ==
    LET i == FirstIndex({k \in 1..Len(participant) :
                           /\ participant[k].project_id = body.project_id
                           /\ participant[k].user_id = body.user_id})
    IN IF ~ValidJoinProject(body)
       THEN /\ resp' = [op |-> "join_project", status |-> 422,
                        detail |-> "validation", req |-> body, body |-> None]
            /\ UNCHANGED <<participant, nextId>>
       ELSE /\ participant' =
                  IF i = 0 THEN Append(participant, Upserted(nextId, body))
                  ELSE [participant EXCEPT ![i] = ApplySet(@, body)]
            /\ nextId' = IF i = 0 THEN nextId + 1 ELSE nextId
            /\ resp' = [op |-> "join_project", status |-> 200, detail |-> "",
                        req |-> body, body |-> None]

ProjectIds == {"p1", "p2"}
PledgeInputs == {None, Some(-1), Some(100)}
FrequencyInputs == {None, Some("monthly"), Some("daily")}
ModeInputs == {None, Some("gpay")}

JoinProject ==
    /\ \E p \in ProjectIds, a \in PledgeInputs, f \in FrequencyInputs,
          m \in ModeInputs :
          join_project([project_id |-> p, user_id |-> "65a01",
                        pledge_amount |-> a, frequency |-> f,
                        preferred_mode |-> m])
    /\ UNCHANGED <<user, masjid, project, contribution, expense, otp_set, thr>>

NextJoin == JoinProject

SpecJoin == Init /\ [][NextJoin]_vars

----------------------------------------------------------------------------
(* Claims settled under SpecJoin *)

PartIdx == 1..Len(participant)

SamePair(a, b) == a.project_id = b.project_id /\ a.user_id = b.user_id

\* At most one participant record per (project_id, user_id).
OnePerPair ==
    \A i, j \in PartIdx : SamePair(participant[i], participant[j]) => i = j

\* After a join, the pair's record carries exactly the payload of that join.
LatestJoinStored ==
    (resp.op = "join_project" /\ resp.status = 200) =>
        \E i \in PartIdx :
            /\ SamePair(participant[i], resp.req)
            /\ participant[i].pledge_amount = resp.req.pledge_amount
            /\ participant[i].frequency = resp.req.frequency
            /\ participant[i].preferred_mode = resp.req.preferred_mode

\* A join leaves the records of the other pairs as they were.
OtherPairsKept ==
    \A i \in PartIdx :
        ~SamePair(participant[i], resp'.req)
            => (i <= Len(participant') /\ participant'[i] = participant[i])

\* C3: after any sequence of joins there is at most one record per pair
\* (project_id, user_id), holding exactly the pledge_amount, frequency and
\* preferred_mode of the most recent join for that pair (an omitted field
\* does not keep an earlier value); joins for other pairs leave it unchanged.
C3_JoinIsFullOverwriteUpsert ==
    [](OnePerPair /\ LatestJoinStored) /\ [][OtherPairsKept]_vars

\* C3 witness: the older of two records was written last, by a re-join that
\* omitted pledge_amount; the record of the other pair kept its pledge.
C3_Witness ==
    /\ Len(participant) = 2
    /\ resp.op = "join_project"
    /\ SamePair(resp.req, participant[1])
    /\ participant[1].pledge_amount = None
    /\ participant[1].frequency = Some("monthly")
    /\ participant[2].pledge_amount = Some(100)

\* C7 as stated: every participant record satisfies the Participant
\* constraints, and a join request violating them is rejected and writes
\* nothing.
C7_ParticipantsAreValid ==
    /\ \A i \in PartIdx : ValidParticipant(participant[i])
    /\ (resp.op = "join_project" /\ ~ValidParticipant(resp.req))
          => resp.status # 200

----------------------------------------------------------------------------
(* Contributions and expenses *)

\* dict.get(key, default): the default only when the key is missing; a key
\* stored with the value null yields None.
Get(doc, key, default) == IF key \in DOMAIN doc THEN doc[key] ELSE default

\* The constraints of schemas.Contribution (amount > 0, mode a PaymentMode).
ValidContribution(body) == body.amount > 0 /\ body.mode \in PaymentMode

\* Contribution(**body.model_dump()): approved is no field of the request
\* and takes its default; optional fields left out are None.
NewContribution(id, body) ==
    [_id |-> id, project_id |-> body.project_id, mobile |-> body.mobile,
     name |-> body.name, amount |-> Some(body.amount), mode |-> body.mode,
     approved |-> TRUE]

\* POST /contributions.  The request model AddContribution constrains
\* neither amount nor mode; Contribution(...) raises inside the handler, which
\* the framework answers with a server error.
add_contribution(body) ==
    IF ~ValidContribution(body)
    THEN /\ resp' = [op |-> "add_contribution", status |-> 500,
                     detail |-> "validation", req |-> body, body |-> None]
         /\ UNCHANGED <<contribution, nextId>>
    ELSE /\ contribution' = create_document(contribution, NewContribution(nextId, body))
         /\ nextId' = nextId + 1
         /\ resp' = [op |-> "add_contribution", status |-> 200, detail |-> "",
                     req |-> body, body |-> Some(IdStr(nextId))]

\* Mutant: Expense.amount without its gt=0 bound.
ValidExpense_NoLowerBound(body) == TRUE

\* The constraint of schemas.Expense (amount > 0).
ValidExpense(body) == body.amount > 0

NewExpense(id, body) ==
    [_id |-> id, project_id |-> body.project_id, amount |-> Some(body.amount)]

\* POST /expenses
add_expense(body) ==
    IF ~ValidExpense(body)
    THEN /\ resp' = [op |-> "add_expense", status |-> 500,
                     detail |-> "validation", req |-> body, body |-> None]
         /\ UNCHANGED <<expense, nextId>>
    ELSE /\ expense' = create_document(expense, NewExpense(nextId, body))
         /\ nextId' = nextId + 1
         /\ resp' = [op |-> "add_expense", status |-> 200, detail |-> "",
                     req |-> body, body |-> Some(IdStr(nextId))]

\* float(doc.get("amount", 0))
AmountOf(doc) == CHOOSE a \in Get(doc, "amount", Some(0)) : TRUE

\* total = 0.0; for doc in cursor: total += float(doc.get("amount", 0))
RECURSIVE SumAmounts(_)
SumAmounts(docs) ==
    IF docs = <<>> THEN 0 ELSE AmountOf(Head(docs)) + SumAmounts(Tail(docs))

\* Mutant: the filter without "project_id", as in super_summary.
ApprovedOf_AnyProject(coll, P) == SelectSeq(coll, LAMBDA d : d.approved = TRUE)

\* find({"project_id": P, "approved": True}) on the contribution collection
ApprovedOf(coll, P) ==
    SelectSeq(coll, LAMBDA d : d.project_id = P /\ d.approved = TRUE)

\* find({"project_id": P}) on the expense collection
ExpensesOf(coll, P) == SelectSeq(coll, LAMBDA d : d.project_id = P)

LedgerBalance(contrib_total, expense_total) == contrib_total - expense_total

\* GET /projects/{project_id}/ledger, as one step
project_ledger(P) ==
    LET contrib_total == SumAmounts(ApprovedOf(contribution, P))
        expense_total == SumAmounts(ExpensesOf(expense, P))
    IN resp' = [op |-> "project_ledger", status |-> 200, detail |-> "",
                req |-> [project_id |-> P],
                body |-> [contributed |-> contrib_total,
                          spent |-> expense_total,
                          balance |-> LedgerBalance(contrib_total, expense_total)]]

----------------------------------------------------------------------------
(* The sequential ledger specification *)

MaxContribs == 3
MaxExpenses == 2

\* A contribution that moderation set to approved = false in the store
\* (no endpoint writes approved; the field exists for moderation).
Unapproved ==
    [_id |-> 1, project_id |-> "p1", mobile |-> None, name |-> None,
     amount |-> Some(1000), mode |-> "direct", approved |-> FALSE]

InitLedger ==
    /\ user = <<>>
    /\ masjid = <<>>
    /\ project = <<>>
    /\ participant = <<>>
    /\ \/ contribution = <<>> /\ nextId = 1
       \/ contribution = <<Unapproved>> /\ nextId = 2
    /\ expense = <<>>
    /\ resp = NoResp
    /\ otp_set = <<>>
    /\ thr = <<>>

ContributionAmounts == {0, 1, 2}
ExpenseAmounts == {0, 3}

AddContribution ==
    /\ Len(contribution) < MaxContribs
    /\ \E p \in ProjectIds, a \in ContributionAmounts, m \in {"direct"} :
          add_contribution([project_id |-> p, mobile |-> None, name |-> None,
                            amount |-> a, mode |-> m])
    /\ UNCHANGED <<user, masjid, project, participant, expense, otp_set, thr>>

AddExpense ==
    /\ Len(expense) < MaxExpenses
    /\ \E p \in ProjectIds, a \in ExpenseAmounts :
          add_expense([project_id |-> p, amount |-> a])
    /\ UNCHANGED <<user, masjid, project, participant, contribution, otp_set, thr>>

ProjectLedger ==
    /\ \E p \in ProjectIds : project_ledger(p)
    /\ UNCHANGED <<user, masjid, project, participant, contribution, expense,
                   nextId, otp_set, thr>>

NextLedger == AddContribution \/ AddExpense \/ ProjectLedger

SpecLedger == InitLedger /\ [][NextLedger]_vars

----------------------------------------------------------------------------
(* Claims settled under SpecLedger *)

\* The sum of amount over the documents of coll at the indices in S.
RECURSIVE TotalAt(_, _)
TotalAt(coll, S) ==
    IF S = {} THEN 0
    ELSE LET i == CHOOSE i \in S : TRUE
         IN AmountOf(coll[i]) + TotalAt(coll, S \ {i})

ApprovedTotal(coll, P) ==
    TotalAt(coll, {i \in 1..Len(coll) : coll[i].project_id = P /\ coll[i].approved})

ExpenseTotal(coll, P) ==
    TotalAt(coll, {i \in 1..Len(coll) : coll[i].project_id = P})

\* C1: the ledger of project P returns contributed = the sum of amount over
\* exactly the approved contributions of P, spent = the sum of amount over
\* exactly the expenses of P, and balance = contributed - spent.
C1_LedgerSums ==
    resp.op = "project_ledger" =>
        /\ resp.body.contributed = ApprovedTotal(contribution, resp.req.project_id)
        /\ resp.body.spent = ExpenseTotal(expense, resp.req.project_id)
        /\ resp.body.balance = resp.body.contributed - resp.body.spent

\* C1 witness: a ledger of p1 over an unapproved contribution of p1, an
\* approved one of p1, one of p2 and an expense of each project.
C1_Witness ==
    /\ resp.op = "project_ledger"
    /\ resp.req.project_id = "p1"
    /\ resp.body.contributed > 0
    /\ resp.body.spent > 0
    /\ \E i \in 1..Len(contribution) : ~contribution[i].approved
    /\ \E i \in 1..Len(contribution) : contribution[i].project_id = "p2"
    /\ \E i \in 1..Len(expense) : expense[i].project_id = "p2"

----------------------------------------------------------------------------
(* Projects and the public landing page *)

\* The constraints of schemas.Project: allowed_frequencies is a list of
\* Frequency values; None (the request's default) is no list.
ValidProject(body) ==
    /\ body.allowed_frequencies # None
    /\ \A l \in body.allowed_frequencies : l \subseteq Frequency

NewProject(id, body) ==
    [_id |-> id, masjid_id |-> body.masjid_id, is_public |-> body.is_public,
     landing_slug |-> body.landing_slug,
     allowed_frequencies |-> body.allowed_frequencies]

\* POST /projects
create_project(body) ==
    IF ~ValidProject(body)
    THEN /\ resp' = [op |-> "create_project", status |-> 500,
                     detail |-> "validation", req |-> body, body |-> None]
         /\ UNCHANGED <<project, nextId>>
    ELSE /\ project' = create_document(project, NewProject(nextId, body))
         /\ nextId' = nextId + 1
         /\ resp' = [op |-> "create_project", status |-> 200, detail |-> "",
                     req |-> body, body |-> Some(IdStr(nextId))]

RecentLimit == 50

RECURSIVE Reverse(_)
Reverse(s) == IF s = <<>> THEN <<>> ELSE Append(Reverse(Tail(s)), Head(s))

\* cursor.sort("created_at", -1).limit(50)
NewestFirst(docs) ==
    LET r == Reverse(docs)
    IN IF Len(r) <= RecentLimit THEN r ELSE SubSeq(r, 1, RecentLimit)

\* c.get("name") or c.get("mobile", "Guest")
DisplayName(c) == PyOr(Get(c, "name", None), Get(c, "mobile", Some("Guest")))

Display(c) == [name |-> DisplayName(c), amount |-> Get(c, "amount", None)]

DisplayAll(docs) == [i \in 1..Len(docs) |-> Display(docs[i])]

\* GET /public/projects/{landing_slug}: total is summed in the loop over the
\* limited cursor.
public_project(landing_slug) ==
    LET i == FirstIndex({k \in 1..Len(project) :
                           /\ project[k].landing_slug = Some(landing_slug)
                           /\ project[k].is_public = TRUE})
        req == [landing_slug |-> landing_slug]
        listed == NewestFirst(ApprovedOf(contribution, IdStr(project[i]._id)))
    IN resp' = IF i = 0
               THEN [op |-> "public_project", status |-> 404,
                     detail |-> "Project not found", req |-> req, body |-> None]
               ELSE [op |-> "public_project", status |-> 200, detail |-> "",
                     req |-> req,
                     body |-> [project |-> IdStr(project[i]._id),
                               recent_contributions |-> DisplayAll(listed),
                               total |-> SumAmounts(listed)]]

----------------------------------------------------------------------------
(* The landing specification: one project, its contributions, its page *)

MaxProjects == 1
MaxVaried == 1
MaxOverLimit == 2

Slugs == {"s1"}

FreeChoice == Len(contribution) < MaxVaried

CreateProject ==
    /\ Len(project) < MaxProjects
    /\ contribution = <<>>
    /\ \E pub \in BOOLEAN, slug \in {None, Some("s1")},
          af \in {None, Some(Frequency)} :
          create_project([masjid_id |-> "65a09", is_public |-> pub,
                          landing_slug |-> slug, allowed_frequencies |-> af])
    /\ UNCHANGED <<user, masjid, participant, contribution, expense, otp_set, thr>>

\* The first MaxVaried contributions vary in every field a page shows; the
\* later ones are plain contributions of amount 1 to the first project.
AddContributionToProject ==
    /\ Len(project) > 0
    /\ Len(contribution) < RecentLimit + MaxOverLimit
    /\ \E p \in (IF FreeChoice THEN {IdStr(project[1]._id), "65aff"}
                               ELSE {IdStr(project[1]._id)}),
          a \in (IF FreeChoice THEN {0, 1, 2} ELSE {1}),
          n \in (IF FreeChoice THEN {None, Some(""), Some("Ali")} ELSE {None}),
          mob \in (IF FreeChoice THEN {None, Some("999")} ELSE {Some("999")}) :
          add_contribution([project_id |-> p, mobile |-> mob, name |-> n,
                            amount |-> a, mode |-> "gpay"])
    /\ UNCHANGED <<user, masjid, project, participant, expense, otp_set, thr>>

PublicProject ==
    /\ \E slug \in Slugs \cup {"nope"} : public_project(slug)
    /\ UNCHANGED <<user, masjid, project, participant, contribution, expense,
                   nextId, otp_set, thr>>

NextLanding == CreateProject \/ AddContributionToProject \/ PublicProject

SpecLanding == Init /\ [][NextLanding]_vars

----------------------------------------------------------------------------
(* Claims settled under SpecLanding *)

\* C6 as stated: the total of the public landing page of project P is the sum
\* of amount over all approved contributions of P, also when P has more than
\* 50 of them.
C6_LandingTotalIsFullSum ==
    (resp.op = "public_project" /\ resp.status = 200) =>
        resp.body.total = ApprovedTotal(contribution, resp.body.project)

\* The display name the fallback chain name, then mobile, then "Guest" gives.
ExpectedName(c) ==
    IF c.name # None THEN c.name
    ELSE IF c.mobile # None THEN c.mobile
    ELSE Some("Guest")

\* C8 as stated: every listed contribution shows its name when one was
\* supplied, else its mobile when one was supplied, else "Guest".
C8_DisplayNameFallback ==
    (resp.op = "public_project" /\ resp.status = 200) =>
        LET listed == NewestFirst(ApprovedOf(contribution, resp.body.project))
        IN \A k \in 1..Len(listed) :
              resp.body.recent_contributions[k].name = ExpectedName(listed[k])

----------------------------------------------------------------------------
(* Interleaved logins: every database call of login is a step of its own *)

MaxThreads == 2

Threads == 1..MaxThreads

Idle == [pc |-> "idle", req |-> None, uid |-> 0, u |-> None]

InitLoginConc ==
    /\ user = <<>>
    /\ masjid = <<>>
    /\ project = <<>>
    /\ participant = <<>>
    /\ contribution = <<>>
    /\ expense = <<>>
    /\ nextId = 1
    /\ resp = NoResp
    /\ otp_set = <<>>
    /\ thr = [t \in Threads |-> Idle]

Inserting == {t \in Threads : thr[t].pc = "insert"}

\* u = collection("user").find_one({"mobile": req.mobile})
login_find(t, m, y) ==
    LET i == FirstIndex({k \in 1..Len(user) : user[k].mobile = m})
    IN /\ thr[t].pc = "idle"
       /\ i = 0 => Len(user) + Cardinality(Inserting) < MaxUsers
       /\ thr' = [thr EXCEPT ![t] =
                     [pc |-> IF i = 0 THEN "insert" ELSE "check",
                      req |-> Some([mobile |-> m, otp |-> y]), uid |-> 0,
                      u |-> IF i = 0 THEN None ELSE Some(user[i])]]
       /\ UNCHANGED <<user, nextId, otp_set, resp>>

\* uid = create_document("user", User(mobile=req.mobile, otp=req.mobile))
login_insert(t) ==
    LET r == CHOOSE r \in thr[t].req : TRUE
    IN /\ thr[t].pc = "insert"
       /\ user' = create_document(user, NewUser(nextId, r.mobile))
       /\ nextId' = nextId + 1
       /\ otp_set' = otp_set @@ (nextId :> None)
       /\ thr' = [thr EXCEPT ![t].pc = "refetch", ![t].uid = nextId]
       /\ UNCHANGED resp

\* u = collection("user").find_one({"_id": ObjectId(uid)})
login_refetch(t) ==
    LET i == FirstIndex({k \in 1..Len(user) : user[k]._id = thr[t].uid})
    IN /\ thr[t].pc = "refetch"
       /\ thr' = [thr EXCEPT ![t].pc = "check", ![t].u = Some(user[i])]
       /\ UNCHANGED <<user, nextId, otp_set, resp>>

\* the OTP comparison and the response
login_check(t) ==
    LET r == CHOOSE r \in thr[t].req : TRUE
        u == CHOOSE u \in thr[t].u : TRUE
    IN /\ thr[t].pc = "check"
       /\ resp' = IF Some(r.otp) # EffectiveOtp(u)
                  THEN [op |-> "login", status |-> 401, detail |-> "Invalid OTP",
                        req |-> r, body |-> None]
                  ELSE [op |-> "login", status |-> 200, detail |-> "",
                        req |-> r, body |-> Some(IdStr(u._id))]
       /\ thr' = [thr EXCEPT ![t] = Idle]
       /\ UNCHANGED <<user, nextId, otp_set>>

OtherCollections == <<masjid, project, participant, contribution, expense>>

LoginFind ==
    /\ \E t \in Threads, m \in Mobiles : \E y \in Otps \cup {m} :
          login_find(t, m, y)
    /\ UNCHANGED OtherCollections

LoginInsert ==
    /\ \E t \in Threads : login_insert(t)
    /\ UNCHANGED OtherCollections

LoginRefetch ==
    /\ \E t \in Threads : login_refetch(t)
    /\ UNCHANGED OtherCollections

LoginCheck ==
    /\ \E t \in Threads : login_check(t)
    /\ UNCHANGED OtherCollections

NextLoginConc == LoginFind \/ LoginInsert \/ LoginRefetch \/ LoginCheck

SpecLoginConc == InitLoginConc /\ [][NextLoginConc]_vars

\* C5 as stated: under any interleaving of concurrent logins the user
\* collection never holds two records with the same mobile.
C5_NoDuplicateMobile ==
    \A i, j \in UserIdx : user[i].mobile = user[j].mobile => i = j

----------------------------------------------------------------------------
(* A ledger request interleaved with writers: its two reads are two steps *)

MaxConcContribs == 2
MaxConcExpenses == 2

LedgerIdle ==
    [pc |-> "idle", project_id |-> "", contrib_total |-> 0,
     c1 |-> <<>>, e1 |-> <<>>, e2 |-> <<>>]

InitLedgerConc ==
    /\ user = <<>>
    /\ masjid = <<>>
    /\ project = <<>>
    /\ participant = <<>>
    /\ contribution = <<>>
    /\ expense = <<>>
    /\ nextId = 1
    /\ resp = NoResp
    /\ otp_set = <<>>
    /\ thr = LedgerIdle

\* The first loop of project_ledger.  c1 and e1 record the two collections
\* as they are at this read.
ledger_read_contributions(P) ==
    /\ thr.pc # "expenses"
    /\ thr' = [pc |-> "expenses", project_id |-> P,
               contrib_total |-> SumAmounts(ApprovedOf(contribution, P)),
               c1 |-> contribution, e1 |-> expense, e2 |-> <<>>]
    /\ UNCHANGED <<contribution, expense, nextId, resp>>

\* The second loop of project_ledger, balance and the response.  e2 records
\* the expense collection as it is at this read.
ledger_read_expenses ==
    LET expense_total == SumAmounts(ExpensesOf(expense, thr.project_id))
    IN /\ thr.pc = "expenses"
       /\ resp' = [op |-> "project_ledger", status |-> 200, detail |-> "",
                   req |-> [project_id |-> thr.project_id],
                   body |-> [contributed |-> thr.contrib_total,
                             spent |-> expense_total,
                             balance |-> LedgerBalance(thr.contrib_total,
                                                       expense_total)]]
       /\ thr' = [thr EXCEPT !.pc = "done", !.e2 = expense]
       /\ UNCHANGED <<contribution, expense, nextId>>

LedgerReadContributions ==
    /\ \E p \in ProjectIds : ledger_read_contributions(p)
    /\ UNCHANGED <<user, masjid, project, participant, otp_set>>

LedgerReadExpenses ==
    /\ ledger_read_expenses
    /\ UNCHANGED <<user, masjid, project, participant, otp_set>>

ConcAddContribution ==
    /\ Len(contribution) < MaxConcContribs
    /\ \E p \in ProjectIds, a \in {1, 2} :
          add_contribution([project_id |-> p, mobile |-> None, name |-> None,
                            amount |-> a, mode |-> "direct"])
    /\ UNCHANGED <<user, masjid, project, participant, expense, otp_set, thr>>

ConcAddExpense ==
    /\ Len(expense) < MaxConcExpenses
    /\ \E p \in ProjectIds, a \in {-1, 1} :
          add_expense([project_id |-> p, amount |-> a])
    /\ UNCHANGED <<user, masjid, project, participant, contribution, otp_set, thr>>

NextLedgerConc ==
    \/ LedgerReadContributions
    \/ LedgerReadExpenses
    \/ ConcAddContribution
    \/ ConcAddExpense

SpecLedgerConc == InitLedgerConc /\ [][NextLedgerConc]_vars

\* C10: a ledger interleaved with add-contribution and add-expense returns
\* contributed = P's approved sum at the instant t1 of its first read and
\* spent = P's expense sum at the instant t2 >= t1 of its second read, so
\* balance = contributed(t1) - spent(t2), never above the balance the store
\* held at t1.
C10_LedgerReadsInOrder ==
    (resp.op = "project_ledger" /\ thr.pc = "done") =>
        LET P == thr.project_id
        IN /\ resp.req.project_id = P
           /\ resp.body.contributed = ApprovedTotal(thr.c1, P)
           /\ resp.body.spent = ExpenseTotal(thr.e2, P)
           /\ resp.body.balance = ApprovedTotal(thr.c1, P) - ExpenseTotal(thr.e2, P)
           /\ resp.body.balance <= ApprovedTotal(thr.c1, P) - ExpenseTotal(thr.e1, P)

\* C10 witness: a contribution and an expense of P arrived between the two
\* reads; the ledger counts the expense and not the contribution.
C10_Witness ==
    /\ resp.op = "project_ledger"
    /\ thr.pc = "done"
    /\ ApprovedTotal(contribution, thr.project_id) > resp.body.contributed
    /\ ExpenseTotal(thr.e1, thr.project_id) > 0
    /\ resp.body.spent > ExpenseTotal(thr.e1, thr.project_id)

====
